---- MODULE Spec2Model ----
(***************************************************************************)
(* Model of src/data_cleaning.py: the customer-table cleaning pipeline     *)
(* main_cleaning_pipeline and its eight stages, over a small DataFrame.    *)
(*                                                                         *)
(* A DataFrame is a record [columns, index, data]: the ordered column      *)
(* names, the row labels, and the rows (data[i][j] is the cell of row i in *)
(* column j).  A cell is a tagged value [t, s, n]:                         *)
(*   t = "str"    a Python string s                                        *)
(*   t = "float"  a float64 whose value is n/2 (n counts halves, so that   *)
(*                the mean of two integral values is exact)                *)
(*   t = "int"    an integer n (Int64 column)                              *)
(*   t = "bool"   a boolean, n = 1 for True                                *)
(*   t = "nan"    the missing marker of object/float columns (NaN)         *)
(*   t = "NA"     the missing marker of nullable-integer columns (pd.NA)   *)
(* Strings are TLA+ strings; the library calls (str.lower, str.strip,      *)
(* regular expressions, to_numeric, astype(str)) are computed character by *)
(* character.  astype(str) is the pandas 1.x/2.x conversion the code was   *)
(* written against: a missing object/float cell becomes the text "nan".    *)
(***************************************************************************)
EXTENDS Integers, Sequences, FiniteSets, TLC

VARIABLES
    input,     \* the table the running call of main_cleaning_pipeline was given
    df,        \* the table main_cleaning_pipeline is working on
    pc,        \* the stage main_cleaning_pipeline calls next
    prev,      \* the table as it was handed to the stage that ran last
    stdout,    \* the lines the running call has printed so far
    last_out,  \* the table the previous call returned (Empty before any)
    calls      \* number of calls of main_cleaning_pipeline started

vars == <<input, df, pc, prev, stdout, last_out, calls>>

\* Largest number of rows of an input table.
MaxRows == 3
\* Number of times the caller runs the pipeline, each time on the last output.
MaxCalls == 2

-----------------------------------------------------------------------------
(* Cells *)

Str(s)   == [t |-> "str",   s |-> s,  n |-> 0]
Float(h) == [t |-> "float", s |-> "", n |-> h]
Int64(k) == [t |-> "int",   s |-> "", n |-> k]
Bool(b)  == [t |-> "bool",  s |-> "", n |-> IF b THEN 1 ELSE 0]
NaN      == [t |-> "nan",   s |-> "", n |-> 0]
NA       == [t |-> "NA",    s |-> "", n |-> 0]

\* Series.isnull / what fillna fills
isnull(c) == c.t \in {"nan", "NA"}

-----------------------------------------------------------------------------
(* Python string operations *)

CharAt(s, i) == SubSeq(s, i, i)

LowerAlpha == "abcdefghijklmnopqrstuvwxyz"
UpperAlpha == "ABCDEFGHIJKLMNOPQRSTUVWXYZ"
Digits     == "0123456789"

CharsOf(s) == {CharAt(s, i) : i \in 1..Len(s)}

\* position of character c in alphabet a, 0 when absent
PosIn(a, c) ==
    LET P == {i \in 1..Len(a) : CharAt(a, i) = c}
    IN  IF P = {} THEN 0 ELSE CHOOSE i \in P : TRUE

UpperChar(c) == IF PosIn(LowerAlpha, c) = 0 THEN c ELSE CharAt(UpperAlpha, PosIn(LowerAlpha, c))
LowerChar(c) == IF PosIn(UpperAlpha, c) = 0 THEN c ELSE CharAt(LowerAlpha, PosIn(UpperAlpha, c))

RECURSIVE str_upper(_)
str_upper(s) == IF s = "" THEN "" ELSE UpperChar(Head(s)) \o str_upper(Tail(s))

RECURSIVE str_lower(_)
str_lower(s) == IF s = "" THEN "" ELSE LowerChar(Head(s)) \o str_lower(Tail(s))

\* str.replace(old, new) for a one-character old
RECURSIVE str_replace(_, _, _)
str_replace(s, old, new) ==
    IF s = "" THEN ""
    ELSE (IF Head(s) = old THEN new ELSE Head(s)) \o str_replace(Tail(s), old, new)

Whitespace == {" ", "\t", "\n", "\r"}

\* str.strip(): leading and trailing whitespace removed
str_strip(s) ==
    LET K == {i \in 1..Len(s) : CharAt(s, i) \notin Whitespace}
    IN  IF K = {} THEN ""
        ELSE SubSeq(s, CHOOSE i \in K : \A j \in K : i <= j,
                       CHOOSE i \in K : \A j \in K : j <= i)

\* str.rstrip(ch): every trailing occurrence of the character ch removed
str_rstrip(s, ch) ==
    LET K == {i \in 1..Len(s) : CharAt(s, i) # ch}
    IN  IF K = {} THEN "" ELSE SubSeq(s, 1, CHOOSE i \in K : \A j \in K : j <= i)

startswith(s, p) == Len(s) >= Len(p) /\ SubSeq(s, 1, Len(p)) = p

IsDigit(c) == c \in CharsOf(Digits)

AllDigits(s) == s # "" /\ \A i \in 1..Len(s) : IsDigit(CharAt(s, i))

\* the characters the regular expression classes \w and \b count as a word
IsWordChar(c) == c \in CharsOf(LowerAlpha) \cup CharsOf(UpperAlpha) \cup CharsOf(Digits) \cup {"_"}

\* int(s) for a string of decimal digits
RECURSIVE DigitsToInt(_)
DigitsToInt(s) ==
    IF s = "" THEN 0
    ELSE 10 * DigitsToInt(SubSeq(s, 1, Len(s) - 1)) + (PosIn(Digits, CharAt(s, Len(s))) - 1)

\* str(k) for an integer k >= 0
RECURSIVE IntStr(_)
IntStr(k) == IF k < 10 THEN CharAt(Digits, k + 1) ELSE IntStr(k \div 10) \o CharAt(Digits, (k % 10) + 1)

\* str(x) for a float x = h/2 >= 0: "45.0", "12.5"
FloatStr(h) == IntStr(h \div 2) \o (IF h % 2 = 0 THEN ".0" ELSE ".5")

\* Series.astype(str), cell by cell
astype_str(c) ==
    CASE c.t = "str"   -> c
      [] c.t = "nan"   -> Str("nan")
      [] c.t = "NA"    -> Str("<NA>")
      [] c.t = "float" -> Str(FloatStr(c.n))
      [] c.t = "int"   -> Str(IntStr(c.n))
      [] c.t = "bool"  -> Str(IF c.n = 1 THEN "True" ELSE "False")

-----------------------------------------------------------------------------
(* DataFrame operations *)

Empty == [columns |-> <<>>, index |-> <<>>, data |-> <<>>]

NRows(d) == Len(d.data)

HasCol(d, name) == \E j \in 1..Len(d.columns) : d.columns[j] = name

ColIdx(d, name) == CHOOSE j \in 1..Len(d.columns) : d.columns[j] = name

\* df[name]
Col(d, name) == [i \in 1..NRows(d) |-> d.data[i][ColIdx(d, name)]]

\* df[name] = series: overwrites the column, or appends a new last column
SetCol(d, name, series) ==
    IF HasCol(d, name)
    THEN [d EXCEPT !.data = [i \in 1..NRows(d) |->
                                [d.data[i] EXCEPT ![ColIdx(d, name)] = series[i]]]]
    ELSE [d EXCEPT !.columns = Append(d.columns, name),
                   !.data = [i \in 1..NRows(d) |-> Append(d.data[i], series[i])]]

-----------------------------------------------------------------------------
(* clean_column_names *)

\* DataFrame.rename(columns={'st': 'state', 'income': 'customer_income'})
rename_column(name) ==
    IF name = "st" THEN "state"
    ELSE IF name = "income" THEN "customer_income"
    ELSE name

clean_column_names(d) ==
    [d EXCEPT !.columns =
        [j \in 1..Len(d.columns) |->
            rename_column(str_replace(str_lower(d.columns[j]), " ", "_"))]]

-----------------------------------------------------------------------------
(* standardize_gender *)

\* Series.fillna(value), cell by cell
fillna(c, value) == IF isnull(c) THEN value ELSE c

\* gender_lambda with the fall-through value normalised as well
gender_lambda_upper(x) ==
    IF startswith(str_upper(str_strip(x)), "F") THEN "F"
    ELSE IF startswith(str_upper(str_strip(x)), "M") THEN "M"
    ELSE str_upper(str_strip(x))

\* the lambda applied to every cell of the gender column
gender_lambda(x) ==
    IF startswith(str_upper(str_strip(x)), "F") THEN "F"
    ELSE IF startswith(str_upper(str_strip(x)), "M") THEN "M"
    ELSE x

gender_cell(c) == Str(gender_lambda(fillna(astype_str(c), Str("")).s))

standardize_gender(d) ==
    IF HasCol(d, "gender")
    THEN SetCol(d, "gender", [i \in 1..NRows(d) |-> gender_cell(Col(d, "gender")[i])])
    ELSE d

-----------------------------------------------------------------------------
(* standardize_state *)

state_mapping ==
    "AL" :> "ALABAMA" @@ "AK" :> "ALASKA" @@ "AZ" :> "ARIZONA" @@ "AR" :> "ARKANSAS"
    @@ "CA" :> "CALIFORNIA" @@ "CALI" :> "CALIFORNIA" @@ "CO" :> "COLORADO" @@ "CT" :> "CONNECTICUT"
    @@ "DE" :> "DELAWARE" @@ "FL" :> "FLORIDA" @@ "GA" :> "GEORGIA" @@ "HI" :> "HAWAII"
    @@ "ID" :> "IDAHO" @@ "IL" :> "ILLINOIS" @@ "IN" :> "INDIANA" @@ "IA" :> "IOWA"
    @@ "KS" :> "KANSAS" @@ "KY" :> "KENTUCKY" @@ "LA" :> "LOUISIANA" @@ "ME" :> "MAINE"
    @@ "MD" :> "MARYLAND" @@ "MA" :> "MASSACHUSETTS" @@ "MI" :> "MICHIGAN" @@ "MN" :> "MINNESOTA"
    @@ "MS" :> "MISSISSIPPI" @@ "MO" :> "MISSOURI" @@ "MT" :> "MONTANA" @@ "NE" :> "NEBRASKA"
    @@ "NV" :> "NEVADA" @@ "NH" :> "NEW HAMPSHIRE" @@ "NJ" :> "NEW JERSEY" @@ "NM" :> "NEW MEXICO"
    @@ "NY" :> "NEW YORK" @@ "NC" :> "NORTH CAROLINA" @@ "ND" :> "NORTH DAKOTA" @@ "OH" :> "OHIO"
    @@ "OK" :> "OKLAHOMA" @@ "OR" :> "OREGON" @@ "PA" :> "PENNSYLVANIA" @@ "RI" :> "RHODE ISLAND"
    @@ "SC" :> "SOUTH CAROLINA" @@ "SD" :> "SOUTH DAKOTA" @@ "TN" :> "TENNESSEE" @@ "TX" :> "TEXAS"
    @@ "UT" :> "UTAH" @@ "VT" :> "VERMONT" @@ "VA" :> "VIRGINIA" @@ "WA" :> "WASHINGTON"
    @@ "WV" :> "WEST VIRGINIA" @@ "WI" :> "WISCONSIN" @@ "WY" :> "WYOMING"

\* state_cell with the alias CALI mapped to the code CA instead of the name
state_cell_alias_to_code(c) ==
    LET u == str_upper(astype_str(c).s)
    IN  Str(IF u = "CALI" THEN "CA"
            ELSE IF u \in DOMAIN state_mapping THEN state_mapping[u] ELSE u)

\* .astype(str).str.upper().replace(state_mapping), cell by cell
state_cell(c) ==
    LET u == str_upper(astype_str(c).s)
    IN  Str(IF u \in DOMAIN state_mapping THEN state_mapping[u] ELSE u)

standardize_state(d) ==
    IF HasCol(d, "state")
    THEN SetCol(d, "state", [i \in 1..NRows(d) |-> state_cell(Col(d, "state")[i])])
    ELSE d

-----------------------------------------------------------------------------
(* standardize_education *)

\* str.contains(r'^[Bb]')
matches_Bb(s) == s # "" /\ Head(s) \in {"B", "b"}

education_cell(c) ==
    LET x == astype_str(c)
    IN  IF matches_Bb(x.s) THEN Str("Bachelor") ELSE x

standardize_education(d) ==
    IF HasCol(d, "education")
    THEN SetCol(d, "education", [i \in 1..NRows(d) |-> education_cell(Col(d, "education")[i])])
    ELSE d

-----------------------------------------------------------------------------
(* standardize_vehicle_class *)

\* str.contains(r'^[Lu]')
matches_Lu(s) == s # "" /\ Head(s) \in {"L", "u"}

\* matches_Sports without the word boundaries: r'Sports'
matches_Sports_anywhere(s) ==
    \E i \in 1..Len(s) : i + 5 <= Len(s) /\ SubSeq(s, i, i + 5) = "Sports"

\* str.contains(r'\bSports\b'): the word Sports with a word boundary on each side
matches_Sports(s) ==
    \E i \in 1..Len(s) :
        /\ i + 5 <= Len(s)
        /\ SubSeq(s, i, i + 5) = "Sports"
        /\ (i = 1 \/ ~IsWordChar(CharAt(s, i - 1)))
        /\ (i + 5 = Len(s) \/ ~IsWordChar(CharAt(s, i + 6)))

vehicle_class_cell(c) ==
    LET x == astype_str(c)
        y == IF matches_Lu(x.s) THEN Str("Luxury") ELSE x
    IN  IF matches_Sports(y.s) THEN Str("Luxury") ELSE y

standardize_vehicle_class(d) ==
    IF HasCol(d, "vehicle_class")
    THEN SetCol(d, "vehicle_class", [i \in 1..NRows(d) |-> vehicle_class_cell(Col(d, "vehicle_class")[i])])
    ELSE d

-----------------------------------------------------------------------------
(* clean_and_convert_numerical *)

\* pd.to_numeric(errors='coerce') of one string, as float64.  Computed for the
\* decimal texts the model's cells produce: digits, optionally followed by a
\* point and the digit 0 or 5; any other text here ("abc", "", "nan", "45%x")
\* does not parse and is coerced to NaN.
to_numeric(s) ==
    IF AllDigits(s) THEN Float(2 * DigitsToInt(s))
    ELSE IF /\ Len(s) >= 3
            /\ AllDigits(SubSeq(s, 1, Len(s) - 2))
            /\ CharAt(s, Len(s) - 1) = "."
            /\ CharAt(s, Len(s)) \in {"0", "5"}
         THEN Float(2 * DigitsToInt(SubSeq(s, 1, Len(s) - 2))
                    + (IF CharAt(s, Len(s)) = "5" THEN 1 ELSE 0))
    ELSE NaN

\* lifetime_value_cell without the rstrip('%')
lifetime_value_cell_no_rstrip(c) == to_numeric(astype_str(c).s)

lifetime_value_cell(c) == to_numeric(str_rstrip(astype_str(c).s, "%"))

\* the starting positions of the matches of r'/(\d+)/' in s
SlashDigitsAt(s) ==
    {i \in 1..Len(s) :
        /\ CharAt(s, i) = "/"
        /\ \E j \in (i + 2)..Len(s) :
              /\ CharAt(s, j) = "/"
              /\ AllDigits(SubSeq(s, i + 1, j - 1))}

\* str_extract taking the rightmost match instead of the leftmost
str_extract_last(s) ==
    IF SlashDigitsAt(s) = {} THEN NaN
    ELSE LET i == CHOOSE a \in SlashDigitsAt(s) : \A b \in SlashDigitsAt(s) : b <= a
             j == CHOOSE b \in (i + 2)..Len(s) :
                     CharAt(s, b) = "/" /\ AllDigits(SubSeq(s, i + 1, b - 1))
         IN  Str(SubSeq(s, i + 1, j - 1))

\* str.extract(r'/(\d+)/'): the group of the leftmost match, NaN without a match
str_extract(s) ==
    IF SlashDigitsAt(s) = {} THEN NaN
    ELSE LET i == CHOOSE a \in SlashDigitsAt(s) : \A b \in SlashDigitsAt(s) : a <= b
             j == CHOOSE b \in (i + 2)..Len(s) :
                     CharAt(s, b) = "/" /\ AllDigits(SubSeq(s, i + 1, b - 1))
         IN  Str(SubSeq(s, i + 1, j - 1))

\* pd.to_numeric(errors='coerce').astype('Int64') of an extracted group
to_Int64(c) == IF c.t = "str" /\ AllDigits(c.s) THEN Int64(DigitsToInt(c.s)) ELSE NA

open_complaints_cell(c) == to_Int64(str_extract(astype_str(c).s))

clean_and_convert_numerical(d) ==
    LET d1 == IF HasCol(d, "customer_lifetime_value")
              THEN SetCol(d, "customer_lifetime_value",
                          [i \in 1..NRows(d) |-> lifetime_value_cell(Col(d, "customer_lifetime_value")[i])])
              ELSE d
    IN  IF HasCol(d1, "number_of_open_complaints")
        THEN SetCol(d1, "number_of_open_complaints",
                    [i \in 1..NRows(d1) |-> open_complaints_cell(Col(d1, "number_of_open_complaints")[i])])
        ELSE d1

-----------------------------------------------------------------------------
(* remove_duplicates *)

\* DataFrame.drop_duplicates(keep='first'): the positions of the rows kept
RECURSIVE KeptRows(_, _)
KeptRows(d, i) ==
    IF i > NRows(d) THEN <<>>
    ELSE IF \E j \in 1..(i - 1) : d.data[j] = d.data[i]
         THEN KeptRows(d, i + 1)
         ELSE <<i>> \o KeptRows(d, i + 1)

\* drop_duplicates(keep=False): every row that has a duplicate is dropped
drop_duplicates_keep_false(d) ==
    LET k == SelectSeq([i \in 1..NRows(d) |-> i],
                       LAMBDA i : \A j \in 1..NRows(d) : j # i => d.data[j] # d.data[i])
    IN  [d EXCEPT !.index = [i \in 1..Len(k) |-> d.index[k[i]]],
                  !.data  = [i \in 1..Len(k) |-> d.data[k[i]]]]

drop_duplicates(d) ==
    LET k == KeptRows(d, 1)
    IN  [d EXCEPT !.index = [i \in 1..Len(k) |-> d.index[k[i]]],
                  !.data  = [i \in 1..Len(k) |-> d.data[k[i]]]]

\* DataFrame.reset_index(drop=True)
reset_index(d) == [d EXCEPT !.index = [i \in 1..NRows(d) |-> i - 1]]

\* remove_duplicates without reset_index(drop=True)
remove_duplicates_no_reset(d) == drop_duplicates(d)

remove_duplicates(d) == reset_index(drop_duplicates(d))

\* rows_removed = initial_rows - len(df_cleaned)
rows_removed(d) == NRows(d) - NRows(remove_duplicates(d))

-----------------------------------------------------------------------------
(* handle_missing_values *)

categorical_cols == <<"customer", "state", "gender", "education", "policy_type", "vehicle_class">>
numerical_cols   == <<"total_claim_amount", "monthly_premium_auto", "customer_income",
                      "customer_lifetime_value">>

\* pd.api.types.is_numeric_dtype: the column holds numbers (or nothing but NaN)
is_numeric_dtype(series) ==
    \A i \in 1..Len(series) : series[i].t \in {"float", "int", "bool", "nan", "NA"}

\* the values of the non-missing cells of a series, in ascending order
RECURSIVE SortedValues(_)
SortedValues(S) ==
    IF S = {} THEN <<>>
    ELSE LET i == CHOOSE a \in S : \A b \in S : a[2] < b[2] \/ (a[2] = b[2] /\ a[1] <= b[1])
         IN  <<i[2]>> \o SortedValues(S \ {i})

\* median taking the lower middle value of an even count instead of the mean
median_lower(series) ==
    LET v == SortedValues({<<i, series[i].n>> : i \in {k \in 1..Len(series) : ~isnull(series[k])}})
        k == Len(v)
    IN  IF k = 0 THEN NaN ELSE Float(v[(k + 1) \div 2])

\* Series.median(): NaN is skipped; the middle value, or the mean of the two
\* middle values; NaN when every cell is missing
median(series) ==
    LET v == SortedValues({<<i, series[i].n>> : i \in {k \in 1..Len(series) : ~isnull(series[k])}})
        k == Len(v)
    IN  IF k = 0 THEN NaN
        ELSE IF k % 2 = 1 THEN Float(v[(k + 1) \div 2])
        ELSE Float((v[k \div 2] + v[(k \div 2) + 1]) \div 2)

\* fill_categorical overwriting the whole column
fill_categorical_all(d, col) ==
    IF HasCol(d, col)
    THEN SetCol(d, col, [i \in 1..NRows(d) |-> Str("Unknown")])
    ELSE d

fill_categorical(d, col) ==
    IF HasCol(d, col)
    THEN SetCol(d, col, [i \in 1..NRows(d) |-> fillna(Col(d, col)[i], Str("Unknown"))])
    ELSE d

fill_numerical(d, col) ==
    IF HasCol(d, col) /\ is_numeric_dtype(Col(d, col))
    THEN SetCol(d, col, [i \in 1..NRows(d) |-> fillna(Col(d, col)[i], median(Col(d, col)))])
    ELSE d

\* for col in categorical_cols: ...
RECURSIVE fill_categoricals(_, _)
fill_categoricals(d, cols) ==
    IF cols = <<>> THEN d ELSE fill_categoricals(fill_categorical(d, Head(cols)), Tail(cols))

\* for col in numerical_cols: ...
RECURSIVE fill_numericals(_, _)
fill_numericals(d, cols) ==
    IF cols = <<>> THEN d ELSE fill_numericals(fill_numerical(d, Head(cols)), Tail(cols))

\* add_complaints_missing with notnull() in place of isnull()
add_complaints_present(d) ==
    IF HasCol(d, "number_of_open_complaints")
    THEN SetCol(d, "complaints_missing",
                [i \in 1..NRows(d) |-> Bool(~isnull(Col(d, "number_of_open_complaints")[i]))])
    ELSE d

add_complaints_missing(d) ==
    IF HasCol(d, "number_of_open_complaints")
    THEN SetCol(d, "complaints_missing",
                [i \in 1..NRows(d) |-> Bool(isnull(Col(d, "number_of_open_complaints")[i]))])
    ELSE d

handle_missing_values(d) ==
    add_complaints_missing(
        fill_numericals(fill_categoricals(d, categorical_cols), numerical_cols))

-----------------------------------------------------------------------------
(* The input tables *)

\* The column sets and cell values the input tables are built from: raw column
\* names as the customer file spells them, and per column the values a cell of
\* that column is drawn from.
Scenarios ==
    { [columns |-> <<"GENDER">>,
       values  |-> << {Str("female"), Str(" f "), Str("F"), Str("Male"), Str("Other"), NaN} >>],
      [columns |-> <<"ST", "Customer">>,
       values  |-> << {Str("CA"), Str("cali"), Str("ZZ"), NaN}, {Str("QC35222"), NaN} >>],
      [columns |-> <<"Education", "Policy Type">>,
       values  |-> << {Str("bachelors"), Str("Bachelor of Science"), Str("Master")},
                      {Str("Personal Auto"), NaN} >>],
      [columns |-> <<"Vehicle Class">>,
       values  |-> << {Str("luxury car"), Str("Luxury Car"), Str("Sports Car"), Str("SUV"),
                       Str("utility"), Str("Sportswear")} >>],
      [columns |-> <<"Customer Lifetime Value">>,
       values  |-> << {Str("45%"), Str("45%%"), Str("abc"), Str("20"), Float(25), NaN} >>],
      [columns |-> <<"Number of Open Complaints">>,
       values  |-> << {Str("Complaint/3/closed"), Str("no match"), Str("1/0/00"),
                       Str("a/b/12/"), Str("/1/22/"), NaN} >>],
      [columns |-> <<"Total Claim Amount">>,
       values  |-> << {Float(20), Float(40), Float(80), Str("abc"), NaN} >>],
      [columns |-> <<"Income", "Monthly Premium Auto">>,
       values  |-> << {Float(0), Float(40), NaN}, {Float(120), NaN} >>],
      [columns |-> <<"GENDER", "Customer Lifetime Value">>,
       values  |-> << {Str("f"), Str("M")}, {Str("45%"), Str("45"), Str("abc")} >>] }

\* the rows a scenario allows: one cell per column, each from that column's values
RowsOf(sc) ==
    {r \in [1..Len(sc.columns) -> UNION {sc.values[j] : j \in 1..Len(sc.columns)}] :
        \A j \in 1..Len(sc.columns) : r[j] \in sc.values[j]}

\* pd.DataFrame(...): a fresh table has the default index 0..n-1
NewTable(columns, data) ==
    [columns |-> columns, index |-> [i \in 1..Len(data) |-> i - 1], data |-> data]

\* the numeric column of the imputation example: 10, 20, missing, 40
ExampleTables ==
    { NewTable(<<"Total Claim Amount">>, << <<Float(20)>>, <<Float(40)>>, <<NaN>>, <<Float(80)>> >>) }

InputTables ==
    ExampleTables \cup
    UNION { { NewTable(sc.columns, data) : data \in [1..n -> RowsOf(sc)] } :
            sc \in Scenarios, n \in 1..MaxRows }

-----------------------------------------------------------------------------
(* main_cleaning_pipeline, one action per stage it calls *)

Init ==
    /\ input \in InputTables
    /\ df = input
    /\ prev = input
    /\ pc = "clean_column_names"
    /\ stdout = <<>>
    /\ last_out = Empty
    /\ calls = 1

Run_clean_column_names ==
    /\ pc = "clean_column_names"
    /\ stdout' = Append(stdout, "Starting the data cleaning and formatting pipeline...")
    /\ prev' = df
    /\ df' = clean_column_names(df)
    /\ pc' = "standardize_gender"
    /\ UNCHANGED <<input, last_out, calls>>

Run_standardize_gender ==
    /\ pc = "standardize_gender"
    /\ prev' = df
    /\ df' = standardize_gender(df)
    /\ pc' = "standardize_state"
    /\ UNCHANGED <<input, stdout, last_out, calls>>

Run_standardize_state ==
    /\ pc = "standardize_state"
    /\ prev' = df
    /\ df' = standardize_state(df)
    /\ pc' = "standardize_education"
    /\ UNCHANGED <<input, stdout, last_out, calls>>

Run_standardize_education ==
    /\ pc = "standardize_education"
    /\ prev' = df
    /\ df' = standardize_education(df)
    /\ pc' = "standardize_vehicle_class"
    /\ UNCHANGED <<input, stdout, last_out, calls>>

Run_standardize_vehicle_class ==
    /\ pc = "standardize_vehicle_class"
    /\ prev' = df
    /\ df' = standardize_vehicle_class(df)
    /\ pc' = "clean_and_convert_numerical"
    /\ UNCHANGED <<input, stdout, last_out, calls>>

Run_clean_and_convert_numerical ==
    /\ pc = "clean_and_convert_numerical"
    /\ prev' = df
    /\ df' = clean_and_convert_numerical(df)
    /\ pc' = "handle_missing_values"
    /\ UNCHANGED <<input, stdout, last_out, calls>>

Run_handle_missing_values ==
    /\ pc = "handle_missing_values"
    /\ prev' = df
    /\ df' = handle_missing_values(df)
    /\ pc' = "remove_duplicates"
    /\ UNCHANGED <<input, stdout, last_out, calls>>

\* the last stage, the completion notice and the return
Run_remove_duplicates ==
    /\ pc = "remove_duplicates"
    /\ prev' = df
    /\ df' = remove_duplicates(df)
    /\ stdout' = stdout \o << "Number of duplicate rows removed: " \o IntStr(rows_removed(df)),
                              "Data cleaning pipeline completed successfully." >>
    /\ pc' = "returned"
    /\ UNCHANGED <<input, last_out, calls>>

\* the caller runs main_cleaning_pipeline again, on the table it returned
CallAgain ==
    /\ pc = "returned"
    /\ calls < MaxCalls
    /\ calls' = calls + 1
    /\ last_out' = df
    /\ input' = df
    /\ prev' = df
    /\ stdout' = <<>>
    /\ pc' = "clean_column_names"
    /\ UNCHANGED df

Next ==
    \/ Run_clean_column_names
    \/ Run_standardize_gender
    \/ Run_standardize_state
    \/ Run_standardize_education
    \/ Run_standardize_vehicle_class
    \/ Run_clean_and_convert_numerical
    \/ Run_handle_missing_values
    \/ Run_remove_duplicates
    \/ CallAgain

Spec == Init /\ [][Next]_vars

TypeOK ==
    /\ pc \in {"clean_column_names", "standardize_gender", "standardize_state",
               "standardize_education", "standardize_vehicle_class",
               "clean_and_convert_numerical", "handle_missing_values",
               "remove_duplicates", "returned"}
    /\ calls \in 1..MaxCalls
    /\ Len(df.index) = NRows(df)
    /\ \A i \in 1..NRows(df) : Len(df.data[i]) = Len(df.columns)

-----------------------------------------------------------------------------
(* Properties *)

Cell(d, i, name) == d.data[i][ColIdx(d, name)]

Rows(d) == 1..NRows(d)

\* the text of a cell as the claims speak of it: a string as it is, a missing
\* cell as the given text
TextOf(c, missing) == IF isnull(c) THEN missing ELSE astype_str(c).s

NoticeZero == "Number of duplicate rows removed: 0"

\* the stage named has just run: df is its result, prev its argument
After(stage) ==
    pc = CASE stage = "clean_column_names"          -> "standardize_gender"
           [] stage = "standardize_gender"          -> "standardize_state"
           [] stage = "standardize_state"           -> "standardize_education"
           [] stage = "standardize_education"       -> "standardize_vehicle_class"
           [] stage = "standardize_vehicle_class"   -> "clean_and_convert_numerical"
           [] stage = "clean_and_convert_numerical" -> "handle_missing_values"
           [] stage = "handle_missing_values"       -> "remove_duplicates"
           [] stage = "remove_duplicates"           -> "returned"

\* ---- C1 ----------------------------------------------------------------
\* C1 as stated: a second run of main_cleaning_pipeline on its own output
\* returns an equal table (number_of_open_complaints and complaints_missing
\* included) and its duplicate-removal notice reports 0.
C1_IdempotentAsStated ==
    (pc = "returned" /\ calls >= 2) =>
        /\ df = last_out
        /\ stdout[2] = NoticeZero

\* C1 amended: on a table without a number_of_open_complaints column a second
\* run returns an equal table and reports 0 duplicates removed; with that
\* column the second run leaves every number_of_open_complaints cell missing
\* and every complaints_missing cell true.
C1_IdempotentWithoutComplaints ==
    (pc = "returned" /\ calls >= 2) =>
        IF HasCol(last_out, "number_of_open_complaints")
        THEN /\ HasCol(df, "number_of_open_complaints")
             /\ HasCol(df, "complaints_missing")
             /\ \A i \in Rows(df) :
                   /\ Cell(df, i, "number_of_open_complaints") = NA
                   /\ Cell(df, i, "complaints_missing") = Bool(TRUE)
        ELSE /\ df = last_out
             /\ stdout[2] = NoticeZero

C1_Witness ==
    /\ pc = "returned" /\ calls = 2
    /\ HasCol(df, "state") /\ HasCol(df, "customer")
    /\ NRows(df) = 2
    /\ Cell(df, 1, "state") = Str("CALIFORNIA")
    /\ Cell(df, 2, "customer") = Str("Unknown")
    /\ df = last_out
    /\ stdout[2] = NoticeZero

\* ---- C2 ----------------------------------------------------------------
\* C2: remove_duplicates is the last stage, so duplicates are detected on
\* normalized values.  When the call returns, prev is the table as the
\* normalization and imputation stages left it, row for row the input; two
\* input rows that differ before normalization and are equal in every cell
\* after it leave exactly one row with those cells in the output, and the
\* output never holds two rows equal in every cell.
C2_DedupOnNormalized ==
    pc = "returned" =>
        /\ NRows(prev) = NRows(input)
        /\ \A i, j \in Rows(df) : i # j => df.data[i] # df.data[j]
        /\ \A i, j \in Rows(input) :
              (/\ i # j
               /\ input.data[i] # input.data[j]
               /\ prev.data[i] = prev.data[j])
              => Cardinality({k \in Rows(df) : df.data[k] = prev.data[i]}) = 1

C2_Witness ==
    /\ pc = "returned" /\ calls = 1
    /\ NRows(input) = 2
    /\ input.columns = <<"ST", "Customer">>
    /\ input.data[1] = <<Str("CA"), Str("QC35222")>>
    /\ input.data[2] = <<Str("cali"), Str("QC35222")>>
    /\ df.data = << <<Str("CALIFORNIA"), Str("QC35222")>> >>

\* ---- C3 ----------------------------------------------------------------
\* what C3 says a gender cell becomes
C3_ClaimedGender(c) ==
    LET u == str_upper(str_strip(TextOf(c, "")))
    IN  IF u # "" /\ Head(u) = "F" THEN "F"
        ELSE IF u # "" /\ Head(u) = "M" THEN "M"
        ELSE u

C4_HasWordSports(s) ==
    \E i \in 1..Len(s) :
        /\ i + 5 <= Len(s)
        /\ \A k \in 0..5 : CharAt(s, i + k) = CharAt("Sports", k + 1)
        /\ i > 1 => ~IsWordChar(CharAt(s, i - 1))
        /\ i + 5 < Len(s) => ~IsWordChar(CharAt(s, i + 6))

\* C4 as stated: "luxury car" becomes "Luxury", a cell holding the whole word
\* Sports becomes "Luxury", a cell matching neither rule keeps its string form.
C4_VehicleAsStated ==
    (After("standardize_vehicle_class") /\ HasCol(prev, "vehicle_class")) =>
        \A i \in Rows(df) :
            LET s == TextOf(Cell(prev, i, "vehicle_class"), "nan")
            IN  /\ s = "luxury car" => Cell(df, i, "vehicle_class") = Str("Luxury")
                /\ C4_HasWordSports(s) => Cell(df, i, "vehicle_class") = Str("Luxury")
                /\ s = "SUV" => Cell(df, i, "vehicle_class") = Str("SUV")

\* C4 amended: a cell whose string form starts with L or u ("Luxury Car") or
\* holds the whole word Sports ("Sports Car") becomes "Luxury"; every other
\* cell, "luxury car" and "SUV" among them, keeps its string form.
C4_VehicleCaseSensitive ==
    (After("standardize_vehicle_class") /\ HasCol(prev, "vehicle_class")) =>
        \A i \in Rows(df) :
            LET s == TextOf(Cell(prev, i, "vehicle_class"), "nan")
            IN  Cell(df, i, "vehicle_class") =
                    Str(IF (s # "" /\ Head(s) \in {"L", "u"}) \/ C4_HasWordSports(s)
                        THEN "Luxury" ELSE s)

C4_Witness ==
    /\ After("standardize_vehicle_class") /\ HasCol(prev, "vehicle_class")
    /\ NRows(df) = 3
    /\ Cell(prev, 1, "vehicle_class") = Str("luxury car")
    /\ Cell(df, 1, "vehicle_class") = Str("luxury car")
    /\ Cell(prev, 2, "vehicle_class") = Str("Sports Car")
    /\ Cell(df, 2, "vehicle_class") = Str("Luxury")
    /\ Cell(prev, 3, "vehicle_class") = Str("Sportswear")
    /\ Cell(df, 3, "vehicle_class") = Str("Sportswear")

\* ---- C5 ----------------------------------------------------------------
C5_Columns == {"customer", "state", "gender", "education", "policy_type", "vehicle_class"}

\* C5 as stated: after handle_missing_values every cell of a categorical
\* column, present or missing before, is the string "Unknown".
C5_AllUnknownAsStated ==
    After("handle_missing_values") =>
        \A col \in C5_Columns : HasCol(prev, col) =>
            \A i \in Rows(df) : Cell(df, i, col) = Str("Unknown")

\* C5 amended: handle_missing_values replaces the missing cells of a
\* categorical column with "Unknown" and leaves its present cells unchanged;
\* afterwards no cell of such a column is missing.
C5_OnlyMissingUnknown ==
    After("handle_missing_values") =>
        \A col \in C5_Columns : HasCol(prev, col) =>
            \A i \in Rows(df) :
                /\ isnull(Cell(prev, i, col)) => Cell(df, i, col) = Str("Unknown")
                /\ ~isnull(Cell(prev, i, col)) => Cell(df, i, col) = Cell(prev, i, col)
                /\ ~isnull(Cell(df, i, col))

C5_Witness ==
    /\ After("handle_missing_values") /\ HasCol(prev, "customer")
    /\ NRows(df) = 2
    /\ Cell(prev, 1, "customer") = NaN /\ Cell(df, 1, "customer") = Str("Unknown")
    /\ Cell(prev, 2, "customer") = Str("QC35222") /\ Cell(df, 2, "customer") = Str("QC35222")

\* ---- C6 ----------------------------------------------------------------
C6_Columns == {"total_claim_amount", "monthly_premium_auto", "customer_income",
               "customer_lifetime_value"}

\* the values (in halves) of the non-missing cells of column col of d, by row
C6_Present(d, col) == {i \in Rows(d) : ~isnull(Cell(d, i, col))}

\* the value of rank r (1 = smallest) among the non-missing cells, by counting
C6_Ranked(d, col, r) ==
    LET P == C6_Present(d, col)
        i == CHOOSE a \in P :
                /\ Cardinality({b \in P : Cell(d, b, col).n < Cell(d, a, col).n}) < r
                /\ Cardinality({b \in P : Cell(d, b, col).n <= Cell(d, a, col).n}) >= r
    IN  Cell(d, i, col).n

\* the median of the non-missing cells: the middle value of the sorted values,
\* the mean of the two middle values for an even count
C6_Median(d, col) ==
    LET k == Cardinality(C6_Present(d, col))
    IN  IF k % 2 = 1 THEN C6_Ranked(d, col, (k + 1) \div 2)
        ELSE (C6_Ranked(d, col, k \div 2) + C6_Ranked(d, col, (k \div 2) + 1)) \div 2

\* C6 as stated: in every numeric column that exists, handle_missing_values
\* replaces each missing cell with the median of the column's non-missing
\* values and leaves the other cells unchanged, so that no cell is missing
\* afterwards whenever the column has a non-missing value.
C6_MedianAsStated ==
    After("handle_missing_values") =>
        \A col \in C6_Columns : HasCol(prev, col) =>
            \A i \in Rows(df) :
                /\ ~isnull(Cell(prev, i, col)) => Cell(df, i, col) = Cell(prev, i, col)
                /\ (isnull(Cell(prev, i, col)) /\ C6_Present(prev, col) # {})
                       => Cell(df, i, col) = Float(C6_Median(prev, col))
                /\ C6_Present(prev, col) # {} => ~isnull(Cell(df, i, col))

\* C6 amended: the same, for every numeric column that exists and has a
\* numeric dtype; a column that holds a string is left as it is, missing
\* cells included.
C6_MedianOfNumericDtype ==
    After("handle_missing_values") =>
        \A col \in C6_Columns : HasCol(prev, col) =>
            \A i \in Rows(df) :
                IF \A k \in Rows(prev) : Cell(prev, k, col).t # "str"
                THEN /\ ~isnull(Cell(prev, i, col)) => Cell(df, i, col) = Cell(prev, i, col)
                     /\ (isnull(Cell(prev, i, col)) /\ C6_Present(prev, col) # {})
                            => Cell(df, i, col) = Float(C6_Median(prev, col))
                     /\ C6_Present(prev, col) # {} => ~isnull(Cell(df, i, col))
                ELSE Cell(df, i, col) = Cell(prev, i, col)

\* 10, 20, missing, 40 becomes 10, 20, 20, 40
C6_Witness ==
    /\ After("handle_missing_values") /\ HasCol(prev, "total_claim_amount")
    /\ Col(prev, "total_claim_amount") = <<Float(20), Float(40), NaN, Float(80)>>
    /\ Col(df, "total_claim_amount") = <<Float(20), Float(40), Float(40), Float(80)>>

\* ---- C7 ----------------------------------------------------------------
\* C7: in the returned table complaints_missing is true exactly in the rows
\* whose number_of_open_complaints is missing; handle_missing_values leaves the
\* number_of_open_complaints cells as numeric cleaning produced them, and the
\* returned cells are those cells; without a number_of_open_complaints column
\* in the input the output has no complaints_missing column.
C7_ComplaintsMissing ==
    /\ After("handle_missing_values") =>
          IF HasCol(prev, "number_of_open_complaints")
          THEN Col(df, "number_of_open_complaints") = Col(prev, "number_of_open_complaints")
          ELSE HasCol(df, "complaints_missing") <=> HasCol(prev, "complaints_missing")
    /\ pc = "returned" =>
          IF HasCol(clean_column_names(input), "number_of_open_complaints")
          THEN /\ HasCol(df, "number_of_open_complaints") /\ HasCol(df, "complaints_missing")
               /\ \A i \in Rows(df) :
                     /\ Cell(df, i, "complaints_missing") \in {Bool(TRUE), Bool(FALSE)}
                     /\ Cell(df, i, "complaints_missing") = Bool(TRUE)
                            <=> isnull(Cell(df, i, "number_of_open_complaints"))
               /\ {Cell(df, i, "number_of_open_complaints") : i \in Rows(df)}
                     = {Cell(prev, i, "number_of_open_complaints") : i \in Rows(prev)}
          ELSE ~HasCol(df, "complaints_missing")

C7_Witness ==
    /\ pc = "returned" /\ calls = 1
    /\ input.columns = <<"Number of Open Complaints">>
    /\ input.data = << <<Str("no match")>>, <<Str("Complaint/3/closed")>> >>
    /\ df.columns = <<"number_of_open_complaints", "complaints_missing">>
    /\ df.data = << <<NA, Bool(TRUE)>>, <<Int64(3), Bool(FALSE)>> >>

\* ---- C8 ----------------------------------------------------------------
\* the pairs <<i, j>> of slashes of s with nothing but digits, and at least
\* one, between them
C8_SlashPairs(s) ==
    {p \in (1..Len(s)) \X (1..Len(s)) :
        /\ p[1] + 1 < p[2]
        /\ CharAt(s, p[1]) = "/" /\ CharAt(s, p[2]) = "/"
        /\ \A k \in (p[1] + 1)..(p[2] - 1) : CharAt(s, k) \in CharsOf(Digits)}

\* C8: every number_of_open_complaints cell becomes the integer value of the
\* first digit run standing between two slashes in its string form, and
\* missing when there is none ("Complaint/3/closed" becomes 3, "no match"
\* becomes missing).
C8_ComplaintsExtract ==
    (After("clean_and_convert_numerical") /\ HasCol(prev, "number_of_open_complaints")) =>
        \A i \in Rows(df) :
            LET s == astype_str(Cell(prev, i, "number_of_open_complaints")).s
                P == C8_SlashPairs(s)
            IN  /\ P = {} => Cell(df, i, "number_of_open_complaints") = NA
                /\ P # {} =>
                      LET p == CHOOSE a \in P : \A b \in P : a[1] <= b[1]
                      IN  Cell(df, i, "number_of_open_complaints")
                              = Int64(DigitsToInt(SubSeq(s, p[1] + 1, p[2] - 1)))
                /\ s = "Complaint/3/closed" => Cell(df, i, "number_of_open_complaints") = Int64(3)
                /\ s = "no match" => Cell(df, i, "number_of_open_complaints") = NA

C8_Witness ==
    /\ After("clean_and_convert_numerical") /\ calls = 1
    /\ HasCol(prev, "number_of_open_complaints")
    /\ Col(prev, "number_of_open_complaints")
          = <<Str("Complaint/3/closed"), Str("no match"), Str("/1/22/")>>
    /\ Col(df, "number_of_open_complaints") = <<Int64(3), NA, Int64(1)>>

\* ---- C9 ----------------------------------------------------------------
\* s without its trailing "%" characters
RECURSIVE C9_Stripped(_)
C9_Stripped(s) ==
    IF s # "" /\ CharAt(s, Len(s)) = "%" THEN C9_Stripped(SubSeq(s, 1, Len(s) - 1)) ELSE s

\* the position of the decimal point of s, 0 without one
C9_Point(s) == PosIn(s, ".")

C10_First(d) == {i \in Rows(d) : \A j \in 1..(i - 1) : d.data[j] # d.data[i]}

\* C10: remove_duplicates returns exactly the rows that equal no earlier row,
\* in their original order, labelled 0..k-1, and the count it prints is the
\* number of input rows minus the number of output rows.
C10_RemoveDuplicates ==
    After("remove_duplicates") =>
        /\ df.columns = prev.columns
        /\ NRows(df) = Cardinality(C10_First(prev))
        /\ \A k \in Rows(df) :
              \E i \in C10_First(prev) :
                  /\ Cardinality({j \in C10_First(prev) : j <= i}) = k
                  /\ df.data[k] = prev.data[i]
        /\ df.index = [k \in Rows(df) |-> k - 1]
        /\ Len(stdout) >= 2
        /\ stdout[2] = "Number of duplicate rows removed: " \o IntStr(NRows(prev) - NRows(df))

C10_Witness ==
    /\ After("remove_duplicates") /\ calls = 1
    /\ NRows(prev) = 3 /\ NRows(df) = 2
    /\ prev.data[1] = prev.data[2] /\ prev.data[3] # prev.data[1]
    /\ df.data = <<prev.data[1], prev.data[3]>>
    /\ df.index = <<0, 1>>
    /\ stdout[2] = "Number of duplicate rows removed: 1"

====
